---- MODULE Spec2Model ----
(***************************************************************************)
(* A model of cargo-clone's library (src/src/lib.rs, module ops):          *)
(*   find_reverse_deps, clone_reverse_deps, clone, select_pkg and          *)
(*   clone_directory.                                                      *)
(*                                                                         *)
(* The collaborators the library calls (cargo's sources and package cache  *)
(* lock, the crates.io API, walkdir, std::fs) are the environment: every   *)
(* call that returns a Result may fail, and what a successful call returns *)
(* is drawn from bounded sets.  A Rust panic (unwrap, indexing) ends the   *)
(* process; it is the pc value "panicked".                                 *)
(*                                                                         *)
(* The destination side of the filesystem is the variable fs, a function   *)
(* from absolute paths (sequences of components) to nodes.  A package's    *)
(* source tree is a function from paths relative to the package root to    *)
(* nodes; it lives outside the destination.                                *)
(***************************************************************************)
EXTENDS Naturals, Sequences, FiniteSets, TLC

VARIABLES
    lock,   \* the package cache lock: the process holding it, or NoProc
    fs,     \* the destination-side filesystem
    proc,   \* per process: program counter, arguments, locals and logs
    env     \* what the sources and the registry can answer (never changes)

vars == <<lock, fs, proc, env>>

Procs == {"p1", "p2"}
NoProc == "none"

\* Rust's Option<T>
None == <<>>
Some(x) == <<x>>
IsSome(o) == o # <<>>
Unwrap(o) == o[1]

Last(s) == s[Len(s)]
Front(s) == SubSeq(s, 1, Len(s) - 1)

----------------------------------------------------------------------------
(* Bounds of the model *)

MaxDepth == 2       \* depth of a source tree below its root
MaxNodes == 3       \* entries of a source tree (clone_directory on its own)
MaxPkgNodes == 1    \* entries of a downloaded package's tree (whole program)
MaxSummaries == 2   \* summaries one query returns
MaxCandidates == 2  \* packages one enumeration returns
MaxDeps == 3        \* dependents the registry lists, over all pages

----------------------------------------------------------------------------
(* Paths and filesystem nodes *)

FileNames == {"src", "f", ".cargo-ok"}
FileData == {"x", "y"}

File(d) == [kind |-> "file", data |-> d]
Dir == [kind |-> "dir", data |-> ""]
Symlink == [kind |-> "symlink", data |-> ""]
NodeChoices == {File(d) : d \in FileData} \cup {Dir, Symlink}

Parent(p) == Front(p)

IsPrefix(a, b) == Len(a) <= Len(b) /\ SubSeq(b, 1, Len(a)) = a

\* The root <<>> always exists and is a directory.
Exists(f, p) == p = <<>> \/ p \in DOMAIN f
IsDir(f, p) == p = <<>> \/ (p \in DOMAIN f /\ f[p].kind = "dir")
IsFile(f, p) == p \in DOMAIN f /\ f[p].kind = "file"

\* The immediate entries of directory d
Entries(f, d) == {p \in DOMAIN f : Len(p) = Len(d) + 1 /\ Parent(p) = d}

\* Everything strictly below d
Below(f, d) == {p \in DOMAIN f : Len(p) > Len(d) /\ IsPrefix(d, p)}

Prefixes(p) == {SubSeq(p, 1, n) : n \in 1..Len(p)}

\* fs::create_dir_all: every missing component is created; it fails when a
\* component exists and is not a directory.
CreateDirAllOk(f, p) == \A q \in Prefixes(p) : q \in DOMAIN f => f[q].kind = "dir"
CreateDirAll(f, p) ==
    [q \in DOMAIN f \cup Prefixes(p) |-> IF q \in DOMAIN f THEN f[q] ELSE Dir]

\* fs::create_dir: the parent must exist, the path must not.
CreateDirOk(f, p) == p # <<>> /\ p \notin DOMAIN f /\ IsDir(f, Parent(p))
CreateDir(f, p) == (p :> Dir) @@ f

\* fs::copy to p: the parent must be a directory and p no directory; an
\* existing file is overwritten.
CopyOk(f, p) == p # <<>> /\ IsDir(f, Parent(p)) /\ ~IsDir(f, p)
CopyTo(f, p, d) == (p :> File(d)) @@ f

----------------------------------------------------------------------------
(* Source trees: prefix-closed sets of relative paths with a node each *)

EmptyTree == <<>>

RECURSIVE SeqsUpTo(_, _)
SeqsUpTo(S, n) ==
    IF n = 0 THEN {<<>>}
    ELSE LET shorter == SeqsUpTo(S, n - 1)
         IN  shorter \cup {Append(s, x) : s \in shorter, x \in S}

RelPaths == SeqsUpTo(FileNames, MaxDepth) \ {<<>>}

\* The trees of at most n entries, built by adding one entry under the root or
\* under a directory of a smaller tree.
RECURSIVE TreesUpTo(_)
TreesUpTo(n) ==
    IF n = 0 THEN {EmptyTree}
    ELSE LET smaller == TreesUpTo(n - 1)
         IN  smaller \cup
             UNION {{(p :> k) @@ t : k \in NodeChoices,
                                    p \in {q \in RelPaths \ DOMAIN t : IsDir(t, Parent(q))}}
                    : t \in smaller}

AllTrees == TreesUpTo(MaxNodes)
PkgTrees == {t \in TreesUpTo(MaxPkgNodes) : \A p \in DOMAIN t : t[p].kind = "file" => t[p].data = "x"}

----------------------------------------------------------------------------
(* WalkDir::new(from): a depth-first walk that yields a directory before its *)
(* contents, the entries of one directory in the order the OS lists them     *)
(* (any order), symbolic links not followed.  The iterator's state is a      *)
(* stack of directories being listed, each with its entries not yet yielded. *)

RECURSIVE Strip(_)
Strip(stack) ==
    IF stack # <<>> /\ Last(stack) = {} THEN Strip(Front(stack)) ELSE stack

EntryKind(t, e) == IF e = <<>> THEN "dir" ELSE t[e].kind

\* The mutation of ListedUnder: the listing also yields deeper entries.
ListedUnderDeep(t, e) == Below(t, e)

\* What listing directory e yields: its immediate entries.
ListedUnder(t, e) == Entries(t, e)

InitialStack == <<{<<>>}>>

\* The entries the iterator may yield next, each with the iterator's state
\* after; none when the walk is over.
Frontier(t, stack) ==
    IF stack = <<>> THEN {}
    ELSE {[entry |-> e,
           stack |-> LET rest == [stack EXCEPT ![Len(stack)] = @ \ {e}]
                     IN  Strip(IF EntryKind(t, e) = "dir"
                               THEN Append(rest, ListedUnder(t, e))
                               ELSE rest)]
          : e \in Last(stack)}

----------------------------------------------------------------------------
(* Process state *)

Fresh ==
    [pc |-> "idle",
     \* arguments of the top-level call
     mode |-> "none", krate |-> None, srcid |-> "registry", prefix |-> None, vers |-> None,
     \* find_reverse_deps / clone_reverse_deps
     page |-> 1, results |-> <<>>, requests |-> <<>>, served |-> <<>>,
     krates |-> <<>>, idx |-> 1, printed |-> None, attempts |-> <<>>, out |-> "none",
     \* clone and select_pkg
     cname |-> None, cprefix |-> None, events |-> <<>>, summaries |-> None,
     requested |-> None, pkg |-> None, dest_path |-> None, checked |-> "none",
     fs0 |-> <<>>, ret |-> "none",
     \* clone_directory
     from |-> EmptyTree, to |-> <<>>, to0 |-> <<>>, stack |-> <<>>, ops |-> <<>>]

Set(p, r) == proc' = [proc EXCEPT ![p] = r] /\ UNCHANGED env

\* The process ends abnormally; the lock guard is dropped by unwinding, or the
\* OS releases the file lock of the dead process.
Panic(p) ==
    /\ Set(p, [proc[p] EXCEPT !.pc = "panicked"])
    /\ lock' = IF lock = p THEN NoProc ELSE lock
    /\ UNCHANGED fs

----------------------------------------------------------------------------
(* clone_directory(from, to), lib.rs 199-221 *)

SentinelName == ".cargo-ok"

\* The mutation of Wanted: the sentinel is not excluded.
WantedAny(kind, e) == kind = "file"

\* lib.rs 209: the entry is copied
Wanted(kind, e) == kind = "file" /\ Last(e) # SentinelName

\* lib.rs 206-207: to joined with the entry's path relative to from
DestOf(to, e) == to \o e

\* lib.rs 200-202
CopyBegin(p) ==
    /\ proc[p].pc = "copy_begin"
    /\ IF ~IsDir(fs, proc[p].to)
       THEN Set(p, [proc[p] EXCEPT !.pc = "clone_ret", !.ret = "not-a-directory"])
       ELSE Set(p, [proc[p] EXCEPT !.pc = "copy_walk", !.stack = InitialStack,
                                   !.to0 = fs, !.ops = <<>>])
    /\ UNCHANGED <<lock, fs>>

\* One iteration of the loop of lib.rs 203-218.  fault: what the environment
\* does to this iteration ("walk": the iterator yields an error, "io": the
\* filesystem call of this iteration fails).
CopyEntry(p) ==
    /\ proc[p].pc = "copy_walk"
    /\ proc[p].stack # <<>>
    /\ \E nxt \in Frontier(proc[p].from, proc[p].stack), fault \in {"none", "walk", "io"} :
         LET e == nxt.entry
             kind == EntryKind(proc[p].from, e)
             dest_path == DestOf(proc[p].to, e)
             advanced == [proc[p] EXCEPT !.stack = nxt.stack]
             failed == [proc[p] EXCEPT !.pc = "clone_ret", !.ret = "io", !.stack = nxt.stack]
         IN  IF fault = "walk"
             THEN Panic(p)                                         \* 204: entry.unwrap()
             ELSE /\ UNCHANGED lock
                  /\ IF Wanted(kind, e)
                     THEN IF fault = "io" \/ ~CopyOk(fs, dest_path)
                          THEN Set(p, failed) /\ UNCHANGED fs      \* 211: fs::copy(..)?
                          ELSE /\ fs' = CopyTo(fs, dest_path, proc[p].from[e].data)
                               /\ Set(p, [advanced EXCEPT
                                            !.ops = Append(@, [op |-> "copy", path |-> e])])
                     ELSE IF kind = "dir"
                     THEN IF dest_path = proc[p].to
                          THEN Set(p, advanced) /\ UNCHANGED fs    \* 213-215: continue
                          ELSE IF fault = "io" \/ ~CreateDirOk(fs, dest_path)
                          THEN Set(p, failed) /\ UNCHANGED fs      \* 216: fs::create_dir(..)?
                          ELSE /\ fs' = CreateDir(fs, dest_path)
                               /\ Set(p, [advanced EXCEPT
                                            !.ops = Append(@, [op |-> "mkdir", path |-> e])])
                     ELSE Set(p, advanced) /\ UNCHANGED fs

\* lib.rs 220
CopyDone(p) ==
    /\ proc[p].pc = "copy_walk"
    /\ proc[p].stack = <<>>
    /\ Set(p, [proc[p] EXCEPT !.pc = "clone_ret", !.ret = "ok"])
    /\ UNCHANGED <<lock, fs>>

----------------------------------------------------------------------------
(* Semantic versions *)

Digits == {"0", "1", "2"}
Letters == {"a", "b", "x"}
DigitVal == ("0" :> 0) @@ ("1" :> 1) @@ ("2" :> 2)
CharRank == ("0" :> 0) @@ ("1" :> 1) @@ ("2" :> 2) @@ ("a" :> 3) @@ ("b" :> 4) @@ ("x" :> 5)

Version(ma, mi, pa, pre) == [major |-> ma, minor |-> mi, patch |-> pa, pre |-> pre]

RECURSIVE SeqLess(_, _)
SeqLess(a, b) ==
    IF b = <<>> THEN FALSE
    ELSE IF a = <<>> THEN TRUE
    ELSE IF a[1] # b[1] THEN CharRank[a[1]] < CharRank[b[1]]
    ELSE SeqLess(Tail(a), Tail(b))

\* The precedence of semantic versions: major, minor, patch, then a version
\* with a pre-release tag before the one without, two tags by their characters.
VersionLess(a, b) ==
    IF a.major # b.major THEN a.major < b.major
    ELSE IF a.minor # b.minor THEN a.minor < b.minor
    ELSE IF a.patch # b.patch THEN a.patch < b.patch
    ELSE IF a.pre = <<>> THEN FALSE
    ELSE IF b.pre = <<>> THEN TRUE
    ELSE SeqLess(a.pre, b.pre)

\* str::trim
RECURSIVE TrimLeft(_)
TrimLeft(s) == IF s # <<>> /\ s[1] = " " THEN TrimLeft(Tail(s)) ELSE s
RECURSIVE TrimRight(_)
TrimRight(s) == IF s # <<>> /\ Last(s) = " " THEN TrimRight(Front(s)) ELSE s
Trim(s) == TrimRight(TrimLeft(s))

\* The index of the first c in s, or 0
RECURSIVE IndexOf(_, _, _)
IndexOf(s, c, i) ==
    IF i > Len(s) THEN 0 ELSE IF s[i] = c THEN i ELSE IndexOf(s, c, i + 1)

\* s split at every c
RECURSIVE Split(_, _)
Split(s, c) ==
    LET i == IndexOf(s, c, 1)
    IN  IF i = 0 THEN <<s>>
        ELSE <<SubSeq(s, 1, i - 1)>> \o Split(SubSeq(s, i + 1, Len(s)), c)

\* A numeric identifier: digits, no leading zero
IsNumeric(s) ==
    /\ s # <<>>
    /\ \A i \in 1..Len(s) : s[i] \in Digits
    /\ Len(s) > 1 => s[1] # "0"

RECURSIVE NumVal(_)
NumVal(s) == IF s = <<>> THEN 0 ELSE NumVal(Front(s)) * 10 + DigitVal[Last(s)]

\* The mutation of ToSemver: every string is accepted.
ToSemverLenient(str) == [ok |-> TRUE, v |-> Version(0, 0, 0, <<>>)]

\* v.to_semver() of a &str, lib.rs 169: the string is trimmed and parsed as
\* MAJOR.MINOR.PATCH with an optional -PRERELEASE of letters and digits.
ToSemver(str) ==
    LET s == Trim(str)
        dash == IndexOf(s, "-", 1)
        core == IF dash = 0 THEN s ELSE SubSeq(s, 1, dash - 1)
        pre == IF dash = 0 THEN <<>> ELSE SubSeq(s, dash + 1, Len(s))
        parts == Split(core, ".")
        ok == /\ Len(parts) = 3
              /\ \A i \in 1..3 : IsNumeric(parts[i])
              /\ dash # 0 => (pre # <<>> /\ \A i \in 1..Len(pre) : pre[i] \in Digits \cup Letters)
    IN  IF ok
        THEN [ok |-> TRUE,
              v |-> Version(NumVal(parts[1]), NumVal(parts[2]), NumVal(parts[3]), pre)]
        ELSE [ok |-> FALSE, v |-> Version(0, 0, 0, <<>>)]


\* summaries.iter().max_by_key(|s| s.version()), lib.rs 180: the index of the
\* greatest element of s[1..n], the last one among equals.
RECURSIVE MaxUpTo(_, _)
MaxUpTo(s, n) ==
    IF n = 1 THEN 1
    ELSE LET best == MaxUpTo(s, n - 1)
         IN  IF VersionLess(s[n].version, s[best].version) THEN best ELSE n

\* The mutation of MaxByKey's fold: the first summary wins.
FirstOf(s) == IF s = <<>> THEN None ELSE Some(s[1])

MaxByKey(s) == IF s = <<>> THEN None ELSE Some(s[MaxUpTo(s, Len(s))])

----------------------------------------------------------------------------
(* The inputs of the whole program *)

CrateNames == {"foo", "bar"}    \* packages a source holds
DepNames == {"bar", "baz"}      \* names the registry lists as dependents
SourceKinds == {"path", "git", "registry"}

VersStrings ==
    {<<" ", "1", ".", "2", ".", "0">>,    \* parses, after trimming
     <<"1", ".", "0">>,                   \* does not parse: two components
     <<"x">>}                             \* does not parse

Versions == {Version(1, 0, 0, <<>>), Version(1, 2, 0, <<>>), Version(1, 2, 0, <<"a">>)}

Cwd == <<"work">>
PrefixChoices == {<<"out">>, <<"out", "sub">>}

BaseFs == (Cwd :> Dir)
Populated(f, d) == (Append(d, "old") :> File("y")) @@ CreateDirAll(f, d)
AsFile(f, d) == (d :> File("y")) @@ CreateDirAll(f, Parent(d))

\* The summaries of a query for `name` that the source answers with these versions
Summaries(name, versions) ==
    [i \in 1..Len(versions) |-> [name |-> name, version |-> versions[i]]]

\* What read_packages may return: up to MaxCandidates packages
Candidates ==
    SeqsUpTo({[name |-> n, version |-> Version(1, 0, 0, <<>>), tree |-> EmptyTree]
              : n \in CrateNames}, MaxCandidates)

DepEntries == {[krate |-> k, num |-> "1.0.0"] : k \in DepNames}
PagesServed == SeqsUpTo(DepEntries, MaxDeps)

----------------------------------------------------------------------------
(* clone, lib.rs 86-152, and select_pkg, lib.rs 154-195 *)

Log(r, ev) == [r EXCEPT !.events = Append(@, ev)]
Fail(r, err) == [r EXCEPT !.pc = "clone_ret", !.ret = err]

\* The mutation of LockFree: the lock excludes nobody.
LockShared(l) == TRUE

\* The package cache lock can be taken: no process holds it.
LockFree(l) == l = NoProc

\* lib.rs 93: config.acquire_package_cache_lock()? waits while another process
\* holds the lock.
Acquire(p) ==
    /\ proc[p].pc = "clone_start"
    /\ UNCHANGED fs
    /\ \/ /\ LockFree(lock)
          /\ lock' = p
          /\ Set(p, [proc[p] EXCEPT !.pc = "clone_setup"])
       \/ /\ UNCHANGED lock
          /\ Set(p, Fail(proc[p], "io"))

\* lib.rs 95-113, up to the call of select_pkg: the source configuration map
\* and the source of the kind srcid names.
Setup(p) ==
    /\ proc[p].pc = "clone_setup"
    /\ UNCHANGED <<lock, fs>>
    /\ \E fault \in {"none", "config", "source"} :
         LET kind == proc[p].srcid
             \* 99: src.update()? of a path source; 113: map.load(..)? of a registry
             called == IF kind = "path" THEN Log(Log(proc[p], "config"), "update")
                       ELSE IF kind = "registry" THEN Log(Log(proc[p], "config"), "load")
                       ELSE Log(proc[p], "config")
         IN  IF fault = "config" THEN Set(p, Fail(Log(proc[p], "config"), "io"))  \* 95
             ELSE IF fault = "source" THEN Set(p, Fail(called, "io"))             \* 99, 105, 113
             ELSE Set(p, [called EXCEPT !.pc = "sel_update"])

\* lib.rs 164: src.update()?
SelUpdate(p) ==
    /\ proc[p].pc = "sel_update"
    /\ UNCHANGED <<lock, fs>>
    /\ \E ok \in BOOLEAN :
         IF ok THEN Set(p, [Log(proc[p], "update") EXCEPT !.pc = "sel_match"])
         ELSE Set(p, Fail(Log(proc[p], "update"), "io"))

\* lib.rs 168-174: the version constraint, parsed
ParseVers(vers) == IF IsSome(vers) THEN ToSemver(Unwrap(vers)) ELSE [ok |-> TRUE, v |-> None]

\* lib.rs 180: the summary select_pkg downloads
Latest(summaries) == MaxByKey(summaries)

\* lib.rs 166-189, a name given: the version is parsed, the source queried
\* and the greatest summary chosen.
SelQuery(p) ==
    /\ proc[p].pc = "sel_match"
    /\ IsSome(proc[p].cname)
    /\ UNCHANGED <<lock, fs>>
    /\ LET name == Unwrap(proc[p].cname)
           parsed == ParseVers(proc[p].vers)
       IN  IF ~parsed.ok
           THEN Set(p, Fail(proc[p], "version-parse"))                       \* 171
           ELSE \E ok \in BOOLEAN, versions \in env.summaries :
                  LET asked == Log(proc[p], "query")
                      summaries == Summaries(name, versions)
                      latest == Latest(summaries)
                  IN  IF ~ok THEN Set(p, Fail(asked, "io"))                  \* 176, 178
                      ELSE IF latest = None
                      THEN Set(p, Fail([asked EXCEPT !.summaries = Some(summaries)],
                                       "not-found"))                         \* 187
                      ELSE Set(p, [asked EXCEPT !.pc = "sel_download",
                                                !.summaries = Some(summaries),
                                                !.requested = latest])

\* lib.rs 184: download_now(l.package_id(), config)?
SelDownload(p) ==
    /\ proc[p].pc = "sel_download"
    /\ UNCHANGED <<lock, fs>>
    /\ \E ok \in BOOLEAN, t \in env.trees :
         LET l == Unwrap(proc[p].requested)
             pkg == [name |-> l.name, version |-> l.version, tree |-> t]
         IN  IF ok THEN Set(p, [Log(proc[p], "download") EXCEPT
                                  !.pc = "dest", !.pkg = Some(pkg), !.summaries = None])
             ELSE Set(p, Fail(Log(proc[p], "download"), "io"))

\* lib.rs 190-193, no name given: the first package the source enumerates.
SelListAll(p) ==
    /\ proc[p].pc = "sel_match"
    /\ proc[p].cname = None
    /\ IF proc[p].srcid = "registry"
       THEN Set(p, Fail(proc[p], "unsupported-query")) /\ UNCHANGED <<lock, fs>>  \* 116-122
       ELSE \E ok \in BOOLEAN, candidates \in env.candidates :
              LET listed == Log(proc[p], "list")
              IN  IF ~ok THEN Set(p, Fail(listed, "io")) /\ UNCHANGED <<lock, fs>> \* 191
                  ELSE IF candidates = <<>>
                  THEN Panic(p)                                              \* 192: candidates[0]
                  ELSE /\ Set(p, [listed EXCEPT !.pc = "dest", !.pkg = Some(candidates[1])])
                       /\ UNCHANGED <<lock, fs>>

\* The mutation of DestPath: the package name is appended to a given prefix too.
DestPathNamed(prefix, pkg) ==
    IF IsSome(prefix) THEN Append(Unwrap(prefix), pkg.name) ELSE Append(Cwd, pkg.name)

\* lib.rs 127-134
DestPath(prefix, pkg) == IF IsSome(prefix) THEN Unwrap(prefix) ELSE Append(Cwd, pkg.name)

\* The mutation of IsEmptyDir: the check is skipped.
IsEmptyDirAlways(f, d) == TRUE

\* lib.rs 140: dest_path.read_dir()?.next().is_none()
IsEmptyDir(f, d) == Entries(f, d) = {}

\* lib.rs 127-149, up to the call of clone_directory: the destination is
\* computed, and created or checked to be empty.
PrepareDest(p) ==
    /\ proc[p].pc = "dest"
    /\ UNCHANGED lock
    /\ \E fault \in {"none", "cwd", "io"} :
         LET pkg == Unwrap(proc[p].pkg)
             dest_path == DestPath(proc[p].cprefix, pkg)
             known == [proc[p] EXCEPT !.dest_path = Some(dest_path)]
             ready == [known EXCEPT !.pc = "copy_begin", !.from = pkg.tree, !.to = dest_path]
         IN  IF fault = "cwd" /\ proc[p].cprefix = None
             THEN Set(p, Fail(proc[p], "io")) /\ UNCHANGED fs                \* 130
             ELSE IF ~Exists(fs, dest_path)
             THEN IF fault = "io" \/ ~CreateDirAllOk(fs, dest_path)
                  THEN Set(p, Fail(known, "io")) /\ UNCHANGED fs             \* 138
                  ELSE /\ fs' = CreateDirAll(fs, dest_path)
                       /\ Set(p, [ready EXCEPT !.checked = "absent"])
             ELSE /\ UNCHANGED fs
                  /\ IF fault = "io" \/ ~IsDir(fs, dest_path)
                     THEN Set(p, Fail(known, "io"))                          \* 140: read_dir()?
                     ELSE IF ~IsEmptyDir(fs, dest_path)
                     THEN Set(p, Fail(known, "dest-conflict"))               \* 142-145
                     ELSE Set(p, [ready EXCEPT !.checked = "empty"])

\* The locals of clone, select_pkg and clone_directory, as new
Locals(r) ==
    [r EXCEPT !.events = <<>>, !.summaries = None, !.requested = None, !.pkg = None,
              !.dest_path = None, !.checked = "none", !.fs0 = <<>>, !.ret = "none",
              !.from = EmptyTree, !.to = <<>>, !.to0 = <<>>, !.stack = <<>>, !.ops = <<>>]

\* clone returns (lib.rs 151, or any ? or bail! before it): the lock guard
\* _lock is dropped.  The caller goes on: the top-level call is over, or
\* clone_reverse_deps takes the next name (lib.rs 78-80).
CloneRet(p) ==
    /\ proc[p].pc = "clone_ret"
    /\ lock' = IF lock = p THEN NoProc ELSE lock
    /\ UNCHANGED fs
    /\ IF proc[p].mode = "revdeps"
       THEN Set(p, [Locals(proc[p]) EXCEPT !.pc = "rev_loop", !.idx = @ + 1])
       ELSE Set(p, [Locals(proc[p]) EXCEPT !.pc = "exit", !.out = proc[p].ret])

----------------------------------------------------------------------------
(* find_reverse_deps, lib.rs 38-60, and clone_reverse_deps, lib.rs 62-84 *)

\* The mutation of PushAll: only the first entry of a page is kept.
PushFirst(results, versions) == Append(results, versions[1].krate)

\* for v in resp.versions { results.push(v.krate) }, lib.rs 54-56
RECURSIVE PushAll(_, _)
PushAll(results, versions) ==
    IF versions = <<>> THEN results
    ELSE PushAll(Append(results, versions[1].krate), Tail(versions))

\* One iteration of the loop of lib.rs 41-58: page number `page` is requested.
\* The registry answers with an error or a page; it lists at most MaxDeps
\* dependents over all pages.
RevFetch(p) ==
    /\ proc[p].pc = "rev_fetch"
    /\ UNCHANGED <<lock, fs>>
    /\ LET asked == [proc[p] EXCEPT !.requests = Append(@, proc[p].page)]
       IN  \/ Set(p, [asked EXCEPT !.pc = "exit", !.out = "request-error"])  \* 49-50, 69
           \/ \E versions \in env.pages :
                /\ Len(proc[p].results) + Len(versions) <= MaxDeps
                /\ LET got == [asked EXCEPT !.served = Append(@, versions)]
                   IN  IF versions = <<>>
                       THEN Set(p, [got EXCEPT !.pc = "rev_loop",            \* 52, 59, 70-74
                                               !.krates = got.results,
                                               !.printed = Some(Len(got.results)),
                                               !.idx = 1])
                       ELSE Set(p, [got EXCEPT !.results = PushAll(@, versions),
                                               !.page = @ + 1])

\* lib.rs 76: prefix.map(|p| format!("{}/{}", p, k))
NewPrefix(prefix, k) == IF IsSome(prefix) THEN Some(Append(Unwrap(prefix), k)) ELSE None

\* A call of clone with these arguments, on filesystem f
Call(r, name, prefix, f) ==
    [Locals(r) EXCEPT !.pc = "clone_start", !.cname = name, !.cprefix = prefix, !.fs0 = f]

\* lib.rs 75-83: the next name is cloned, or the loop is over.
RevLoop(p) ==
    /\ proc[p].pc = "rev_loop"
    /\ UNCHANGED <<lock, fs>>
    /\ IF proc[p].idx <= Len(proc[p].krates)
       THEN LET k == proc[p].krates[proc[p].idx]
                new_prefix == NewPrefix(proc[p].prefix, k)
            IN  Set(p, [Call(proc[p], Some(k), new_prefix, fs) EXCEPT
                          !.attempts = Append(@, [name |-> k, prefix |-> new_prefix])])
       ELSE Set(p, [proc[p] EXCEPT !.pc = "exit", !.out = "ok"])


----------------------------------------------------------------------------
(* The inputs of a run: what the environment can answer, the filesystem, and *)
(* the top-level call                                                        *)

\* What the sources can answer to one clone
FullEnv ==
    [summaries |-> SeqsUpTo(Versions, MaxSummaries),
     trees |-> PkgTrees,
     candidates |-> Candidates,
     pages |-> {<<>>}]

\* What the sources and the registry can answer where every dependent of a
\* batch is cloned: the registry's pages, and a few answers per clone.
SmallEnv ==
    [summaries |-> {<<>>, <<Version(1, 0, 0, <<>>)>>},
     trees |-> {EmptyTree, (<<"f">> :> File("x"))},
     candidates |-> {<<>>, <<[name |-> "foo", version |-> Version(1, 0, 0, <<>>),
                             tree |-> (<<"f">> :> File("x"))]>>},
     pages |-> PagesServed]

\* clone_directory on its own: any source tree, copied to the directory Dst
\* (empty, absent, or a regular file).
Dst == <<"out">>

InitCopy ==
    /\ lock = NoProc
    /\ env = FullEnv
    /\ fs \in {<<>>, (Dst :> Dir), (Dst :> File("x"))}
    /\ \E t \in AllTrees :
         proc = [q \in Procs |->
                   IF q = "p1"
                   THEN [Fresh EXCEPT !.pc = "copy_begin", !.from = t, !.to = Dst]
                   ELSE Fresh]

NextCopy == \E p \in Procs : CopyBegin(p) \/ CopyEntry(p) \/ CopyDone(p)

SpecCopy == InitCopy /\ [][NextCopy]_vars

OptVers == {None} \cup {Some(x) : x \in VersStrings}
OptPrefixes == {None} \cup {Some(x) : x \in PrefixChoices}

\* clone(krate, srcid, prefix, vers, config)
CloneCalls(f) ==
    {Call([Fresh EXCEPT !.mode = "clone", !.krate = k, !.srcid = s, !.prefix = pre,
                        !.vers = v], k, pre, f)
     : k \in {None, Some("foo")}, s \in SourceKinds, pre \in OptPrefixes, v \in OptVers}

\* clone_reverse_deps(krate, srcid, prefix, vers, config)
RevDepsCalls ==
    {[Fresh EXCEPT !.mode = "revdeps", !.pc = "rev_fetch", !.krate = Some("foo"),
                   !.srcid = s, !.prefix = pre, !.vers = v]
     : s \in SourceKinds, pre \in {None, Some(<<"out">>)},
       v \in {None, Some(<<"x">>), Some(<<" ", "1", ".", "2", ".", "0">>)}}

\* The filesystem before the program runs: the working directory, and at most
\* one of the paths ds that exists (empty, populated, or a regular file).
InitFs(ds) ==
    {BaseFs} \cup
    UNION {{CreateDirAll(BaseFs, d), Populated(BaseFs, d), AsFile(BaseFs, d)} : d \in ds}

\* The destinations a single clone of this model can have
CloneDests == PrefixChoices \cup {Append(Cwd, n) : n \in CrateNames}

\* One call of clone, the sources answering anything within the bounds
InitClone ==
    /\ lock = NoProc
    /\ env = FullEnv
    /\ fs \in InitFs(CloneDests)
    /\ \E c \in CloneCalls(fs) : proc = [q \in Procs |-> IF q = "p1" THEN c ELSE Fresh]

StepClone(p) ==
    \/ Acquire(p) \/ Setup(p) \/ SelUpdate(p) \/ SelQuery(p) \/ SelDownload(p)
    \/ SelListAll(p) \/ PrepareDest(p)
    \/ CopyBegin(p) \/ CopyEntry(p) \/ CopyDone(p)
    \/ CloneRet(p)

NextClone == \E p \in Procs : StepClone(p)

SpecClone == InitClone /\ [][NextClone]_vars

\* The whole program: process p1 makes one top-level call, clone or
\* clone_reverse_deps.
Init ==
    /\ lock = NoProc
    /\ env = SmallEnv
    /\ \/ /\ fs \in InitFs(CloneDests)
          /\ \E c \in CloneCalls(fs) : proc = [q \in Procs |-> IF q = "p1" THEN c ELSE Fresh]
       \/ \E c \in RevDepsCalls :
            /\ fs \in InitFs({DestPath(NewPrefix(c.prefix, "bar"), [name |-> "bar"])})
            /\ proc = [q \in Procs |-> IF q = "p1" THEN c ELSE Fresh]

Step(p) == RevFetch(p) \/ RevLoop(p) \/ StepClone(p)

Next == \E p \in Procs : Step(p)

Spec == Init /\ [][Next]_vars

----------------------------------------------------------------------------
(* Two processes that share one package cache *)

LockEnv ==
    [summaries |-> {<<Version(1, 0, 0, <<>>)>>},
     trees |-> {EmptyTree},
     candidates |-> SeqsUpTo({[name |-> "foo", version |-> Version(1, 0, 0, <<>>),
                               tree |-> EmptyTree]}, 1),
     pages |-> SeqsUpTo({[krate |-> "bar", num |-> "1.0.0"]}, 1)]

LockCalls(f) ==
    {[Fresh EXCEPT !.mode = "revdeps", !.pc = "rev_fetch", !.krate = Some("foo")],
     Call([Fresh EXCEPT !.mode = "clone", !.krate = Some("foo")], Some("foo"), None, f),
     Call([Fresh EXCEPT !.mode = "clone", !.srcid = "path"], None, None, f)}

InitLock ==
    /\ lock = NoProc
    /\ env = LockEnv
    /\ fs = BaseFs
    /\ proc \in [Procs -> LockCalls(fs)]

SpecLock == InitLock /\ [][Next]_vars

----------------------------------------------------------------------------
(* The claims *)

PopulatedDir(f, d) == IsDir(f, d) /\ Entries(f, d) # {}
Logged(r, evs) == \E i \in 1..Len(r.events) : r.events[i] \in evs
ResolvingPcs == {"clone_setup", "sel_update", "sel_match", "sel_download"}
CopyPcs == {"copy_begin", "copy_walk"}
ClonePcs == {"clone_start", "dest", "clone_ret"} \cup ResolvingPcs \cup CopyPcs

\* The tree t, less its sentinel files, is at d in f: every other file with its
\* data, every directory, and nothing else.
Mirrors(f, d, t) ==
    /\ \A e \in DOMAIN t :
         /\ IsFile(f, d \o e) <=> (t[e].kind = "file" /\ Last(e) # ".cargo-ok")
         /\ IsFile(f, d \o e) => f[d \o e].data = t[e].data
         /\ IsDir(f, d \o e) <=> t[e].kind = "dir"
         /\ (d \o e) \in DOMAIN f => f[d \o e].kind \in {"file", "dir"}
    /\ \A q \in Below(f, d) : SubSeq(q, Len(d) + 1, Len(q)) \in DOMAIN t

\* C1, as claimed: a clone whose destination exists and has an entry fails with
\* the destination-conflict error and writes nothing.
C1_ConflictAlways ==
    \A p \in Procs :
      LET r == proc[p]
      IN  (r.pc = "clone_ret" /\ IsSome(r.dest_path)
             /\ PopulatedDir(r.fs0, Unwrap(r.dest_path)))
          => (r.ret = "dest-conflict" /\ fs = r.fs0)

\* C1, amended: a clone whose destination exists and has an entry fails, with
\* the destination-conflict error or (when listing the directory fails) with
\* that I/O error, and writes nothing; and whenever clone_directory is at work,
\* the destination was absent or an empty directory when clone checked it.
C1_PopulatedNeverWritten ==
    \A p \in Procs :
      LET r == proc[p]
      IN  /\ (r.pc = "clone_ret" /\ IsSome(r.dest_path)
                /\ PopulatedDir(r.fs0, Unwrap(r.dest_path)))
             => (r.ret \in {"dest-conflict", "io"} /\ fs = r.fs0)
          /\ r.pc \in CopyPcs
             => /\ r.dest_path = Some(r.to)
                /\ \/ r.checked = "absent" /\ ~Exists(r.fs0, r.to)
                   \/ r.checked = "empty" /\ IsDir(r.fs0, r.to) /\ Entries(r.fs0, r.to) = {}
          /\ r.pc = "copy_begin" => (IsDir(fs, r.to) /\ Below(fs, r.to) = {})

C1_Witness ==
    \E p \in Procs :
      /\ proc[p].pc = "clone_ret"
      /\ proc[p].ret = "dest-conflict"
      /\ PopulatedDir(proc[p].fs0, Unwrap(proc[p].dest_path))
      /\ fs = proc[p].fs0

\* C2: when clone_directory(from, to) succeeds on an empty directory to, the
\* destination is the source tree less its sentinel files: the same regular
\* files with the same data, the same directories, nothing else, and no file
\* named .cargo-ok at any depth.
C2_MirrorsLessSentinel ==
    \A p \in Procs :
      LET r == proc[p]
      IN  (r.pc = "clone_ret" /\ r.ret = "ok" /\ r.to0 # <<>>
             /\ IsDir(r.to0, r.to) /\ Entries(r.to0, r.to) = {})
          => /\ Mirrors(fs, r.to, r.from)
             /\ \A q \in Below(fs, r.to) : fs[q].kind = "file" => Last(q) # ".cargo-ok"
             /\ \A q \in DOMAIN r.to0 : fs[q] = r.to0[q]
             /\ DOMAIN fs \ Below(fs, r.to) = DOMAIN r.to0

C2_Witness ==
    \E p \in Procs :
      LET r == proc[p]
      IN  /\ r.pc = "clone_ret" /\ r.ret = "ok"
          /\ \E e \in DOMAIN r.from :
               Len(e) = 2 /\ r.from[e].kind = "file" /\ Last(e) = ".cargo-ok"
          /\ \E e \in DOMAIN r.from : IsFile(fs, r.to \o e)

\* C3, as claimed: once the list of n dependents is known, n is the count
\* reported, clone is attempted once per name in list order, and the batch
\* ends by returning success with every name attempted.
C3_EveryDependentAttempted ==
    \A p \in Procs :
      LET r == proc[p]
      IN  (r.mode = "revdeps" /\ IsSome(r.printed))
          => /\ Unwrap(r.printed) = Len(r.krates)
             /\ Len(r.attempts) <= Len(r.krates)
             /\ \A i \in 1..Len(r.attempts) : r.attempts[i].name = r.krates[i]
             /\ r.pc \in {"exit", "panicked"}
                => (r.pc = "exit" /\ r.out = "ok" /\ Len(r.attempts) = Len(r.krates))

\* The names of these pages, in page order
RECURSIVE KratesOf(_)
KratesOf(pages) ==
    IF pages = <<>> THEN <<>>
    ELSE KratesOf(Front(pages)) \o [i \in 1..Len(Last(pages)) |-> Last(pages)[i].krate]

RECURSIVE TotalSize(_)
TotalSize(pages) == IF pages = <<>> THEN 0 ELSE TotalSize(Front(pages)) + Len(Last(pages))

\* C4: pages are requested as 1, 2, 3, ..., one request each; the first empty
\* page ends the listing, whose result is the names of the k nonempty pages in
\* page order after k + 1 requests; a failed request ends the batch with an
\* error, no list and no clone attempted.
C4_Pagination ==
    \A p \in Procs :
      LET r == proc[p]
      IN  r.mode = "revdeps"
          => /\ \A i \in 1..Len(r.requests) : r.requests[i] = i
             /\ r.pc = "rev_fetch"
                => /\ Len(r.requests) = Len(r.served)
                   /\ \A i \in 1..Len(r.served) : r.served[i] # <<>>
                   /\ r.page = Len(r.requests) + 1
                   /\ r.results = KratesOf(r.served)
                   /\ r.attempts = <<>> /\ r.printed = None
             /\ IsSome(r.printed)
                => /\ r.served # <<>> /\ Last(r.served) = <<>>
                   /\ \A i \in 1..(Len(r.served) - 1) : r.served[i] # <<>>
                   /\ Len(r.requests) = Len(r.served)
                   /\ r.krates = KratesOf(r.served)
                   /\ Len(r.krates) = TotalSize(r.served)
                   /\ Unwrap(r.printed) = Len(r.krates)
             /\ r.out = "request-error"
                => /\ r.pc = "exit"
                   /\ Len(r.requests) = Len(r.served) + 1
                   /\ r.krates = <<>> /\ r.attempts = <<>> /\ r.printed = None
                   /\ fs \in InitFs({<<"out", "bar">>, <<"work", "bar">>})

C4_Witness ==
    \E p \in Procs :
      LET r == proc[p]
      IN  /\ r.pc = "rev_loop"
          /\ Len(r.served) = 3 /\ Len(r.served[1]) = 2 /\ Len(r.served[2]) = 1
          /\ Len(r.requests) = 3
          /\ Len(r.krates) = 3 /\ r.krates[1] # r.krates[2]

\* The version strings of VersStrings that are no semantic version
Unparsable == {<<"1", ".", "0">>, <<"x">>}
BadVersion(r) == IsSome(r.cname) /\ IsSome(r.vers) /\ Unwrap(r.vers) \in Unparsable

\* C5, as claimed: the version-parse error comes before any call of the source:
\* no load, update, query, enumeration or download has been made.
C5_RejectedBeforeAnyCall ==
    \A p \in Procs :
      proc[p].ret = "version-parse"
      => ~Logged(proc[p], {"load", "update", "query", "list", "download"})

\* C5, amended: with a name and a version constraint that is no semantic
\* version, clone makes no query and no download and never reaches the
\* destination; it fails with the version-parse error, or with the error of the
\* lock, the source set-up or the metadata update when one of these fails
\* first.  The version is rejected after the update of line 164, and only when
\* a name is given.
C5_RejectedBeforeQuery ==
    \A p \in Procs :
      LET r == proc[p]
      IN  /\ (BadVersion(r) /\ r.pc \in ClonePcs)
             => /\ ~Logged(r, {"query", "download"})
                /\ r.pc \notin {"sel_download", "dest"} \cup CopyPcs
                /\ r.ret \in {"none", "io", "version-parse"}
                /\ r.ret = "io" => ~Logged(r, {"query", "list", "download"})
                /\ r.pkg = None /\ fs = r.fs0
          /\ r.ret = "version-parse"
             => (BadVersion(r) /\ r.events # <<>> /\ Last(r.events) = "update")

C5_Witness ==
    \E p \in Procs :
      /\ proc[p].pc = "clone_ret"
      /\ proc[p].ret = "version-parse"
      /\ Logged(proc[p], {"update"})

\* The package cache lock is held by whoever is inside resolution
Resolving(p) == proc[p].pc \in ResolvingPcs

\* C6: a process is inside resolution (source configuration, update, query,
\* enumeration, download) only while it holds the lock, so no two processes
\* are inside resolution together; and a process holds the lock neither before
\* a clone nor after one has returned, between two clones of a batch or after
\* the batch.
C6_LockDiscipline ==
    /\ \A p \in Procs : Resolving(p) => lock = p
    /\ \A p, q \in Procs : (p # q) => ~(Resolving(p) /\ Resolving(q))
    /\ \A p \in Procs :
         proc[p].pc \in {"idle", "rev_fetch", "rev_loop", "clone_start", "exit", "panicked"}
         => lock # p

C6_Witness ==
    \E p, q \in Procs :
      /\ p # q
      /\ Resolving(p) /\ lock = p
      /\ proc[q].mode = "revdeps" /\ proc[q].pc = "clone_start" /\ proc[q].idx > 1

\* The precedence of semantic versions, stated on its own
Precedes(a, b) ==
    \/ a.major < b.major
    \/ a.major = b.major /\ a.minor < b.minor
    \/ a.major = b.major /\ a.minor = b.minor /\ a.patch < b.patch
    \/ /\ a.major = b.major /\ a.minor = b.minor /\ a.patch = b.patch
       /\ a.pre # <<>>
       /\ (b.pre = <<>> \/ SeqLess(a.pre, b.pre))

\* C7: with a name given, the summary select_pkg asks to download is one the
\* query returned and no summary has a greater version (every other has a
\* smaller one when the versions are distinct); the package it gets has that
\* name and version; after an empty answer nothing is downloaded and the
\* result is 'not found'.
C7_DownloadsGreatest ==
    \A p \in Procs :
      LET r == proc[p]
      IN  /\ r.pc = "sel_download"
             => LET ss == Unwrap(r.summaries)
                    l == Unwrap(r.requested)
                IN  /\ \E i \in 1..Len(ss) : ss[i] = l
                    /\ \A i \in 1..Len(ss) : ~Precedes(l.version, ss[i].version)
                    /\ (\A i, j \in 1..Len(ss) : i # j => ss[i].version # ss[j].version)
                       => \A i \in 1..Len(ss) : ss[i] # l => Precedes(ss[i].version, l.version)
          /\ r.summaries = Some(<<>>)
             => (r.pc = "clone_ret" /\ r.ret = "not-found" /\ r.requested = None
                 /\ r.pkg = None /\ ~Logged(r, {"download"}))
          /\ Logged(r, {"download"}) => IsSome(r.requested)
          /\ (IsSome(r.pkg) /\ IsSome(r.cname))
             => /\ Unwrap(r.pkg).name = Unwrap(r.cname)
                /\ Unwrap(r.pkg).version = Unwrap(r.requested).version
                /\ Logged(r, {"download"})

C7_Witness ==
    \E p \in Procs :
      LET r == proc[p]
      IN  /\ r.pc = "sel_download"
          /\ Len(Unwrap(r.summaries)) = 2
          /\ Unwrap(r.summaries)[1].version = Version(1, 2, 0, <<>>)
          /\ Unwrap(r.summaries)[2].version = Version(1, 2, 0, <<"a">>)
          /\ Unwrap(r.requested) = Unwrap(r.summaries)[1]

\* C8: the destination of a clone is the given prefix as it is, or else the
\* working directory joined with the package's name; in a batch the prefix of
\* dependent k is the batch's prefix joined with k, or none; and a successful
\* clone into a destination that did not exist has created it and its missing
\* parents and holds the package's tree.
C8_Destination ==
    \A p \in Procs :
      LET r == proc[p]
      IN  /\ IsSome(r.dest_path)
             => Unwrap(r.dest_path) =
                  IF IsSome(r.cprefix) THEN Unwrap(r.cprefix)
                  ELSE Cwd \o <<Unwrap(r.pkg).name>>
          /\ (r.mode = "clone" /\ r.pc \in ClonePcs)
             => (r.cprefix = r.prefix /\ r.cname = r.krate)
          /\ (r.mode = "revdeps" /\ r.pc \in ClonePcs)
             => LET k == r.krates[r.idx]
                IN  /\ r.cname = Some(k)
                    /\ r.cprefix = IF IsSome(r.prefix) THEN Some(Unwrap(r.prefix) \o <<k>>)
                                   ELSE None
                    /\ Last(r.attempts) = [name |-> k, prefix |-> r.cprefix]
          /\ (r.pc = "clone_ret" /\ r.ret = "ok" /\ ~Exists(r.fs0, Unwrap(r.dest_path)))
             => LET d == Unwrap(r.dest_path)
                IN  /\ \A q \in Prefixes(d) : IsDir(fs, q)
                    /\ Mirrors(fs, d, Unwrap(r.pkg).tree)
                    /\ \A q \in DOMAIN r.fs0 : fs[q] = r.fs0[q]

C8_Witness ==
    \E p \in Procs :
      LET r == proc[p]
      IN  /\ r.mode = "revdeps" /\ r.pc = "clone_ret" /\ r.ret = "ok"
          /\ r.dest_path = Some(<<"out", "bar">>)
          /\ ~Exists(r.fs0, <<"out">>)
          /\ IsFile(fs, <<"out", "bar", "f">>)

\* C9, as claimed: no clone ends the process abnormally; every failure is
\* returned as an error.
C9_NoAbnormalTermination == \A p \in Procs : proc[p].pc # "panicked"

\* C10: a file is copied, or a directory created, only below a directory that
\* already exists in the destination, whatever entry the walk yields next; the
\* root is skipped; and each directory of the source below the root is created
\* exactly once.
Count(ops, o) == Cardinality({i \in 1..Len(ops) : ops[i] = o})

C10_ParentFirst ==
    \A p \in Procs :
      LET r == proc[p]
          Mkdir(e) == [op |-> "mkdir", path |-> e]
      IN  /\ r.pc = "copy_walk"
             => \A n \in Frontier(r.from, r.stack) :
                  (n.entry # <<>> /\ (EntryKind(r.from, n.entry) = "dir"
                                      \/ Wanted(EntryKind(r.from, n.entry), n.entry)))
                  => /\ IsDir(fs, Parent(r.to \o n.entry))
                     /\ Len(n.entry) > 1 => Count(r.ops, Mkdir(Parent(n.entry))) = 1
          /\ r.pc \in {"copy_walk", "clone_ret", "panicked"}
             => /\ \A i \in 1..Len(r.ops) :
                     /\ r.ops[i].path # <<>>
                     /\ r.ops[i].path \in DOMAIN r.from
                     /\ r.ops[i].op = "mkdir" <=> r.from[r.ops[i].path].kind = "dir"
                     /\ Count(r.ops, r.ops[i]) = 1
                /\ r.to0 # <<>> => fs[r.to] = r.to0[r.to]
          /\ (r.pc = "clone_ret" /\ r.ret = "ok")
             => \A e \in DOMAIN r.from :
                  r.from[e].kind = "dir" => Count(r.ops, Mkdir(e)) = 1

C10_Witness ==
    \E p \in Procs :
      LET r == proc[p]
      IN  /\ r.pc = "copy_walk"
          /\ Count(r.ops, [op |-> "mkdir", path |-> <<"src">>]) = 1
          /\ \E n \in Frontier(r.from, r.stack) :
               Len(n.entry) = 2 /\ r.from[n.entry].kind = "file" /\ Last(n.entry) = "f"

====
